---- MODULE Spec2Model ----
(***************************************************************************)
(* Turmeric disease detection: the Convex backend (disease catalog seeding, *)
(* the analyzeImage orchestrator, getTreatmentInfo, the analyses table and  *)
(* its queries) and the React client (the App component's upload state     *)
(* machine) as state machines.                                              *)
(*                                                                          *)
(* Strings whose characters matter (disease names) are sequences of         *)
(* one-character strings; opaque texts (treatments, messages) are strings.  *)
(* An optional value is <<>> when absent and <<value>> when present.        *)
(***************************************************************************)
EXTENDS Integers, Sequences, FiniteSets, TLC

\* Bounds of the model.
MaxRuns == 1
MaxSeedCalls == 2
MaxAnalyses == 12
MaxCatalog == 2
MaxNameLen == 2

MaxUploads == 2

\* .take(10) in getUserAnalyses.
TakeLimit == 10

Absent == <<>>

Present(x) == <<x>>

NoUser == "<unauthenticated>"

Users == {"u1", "u2"}

\* The callers that upload images in the model; "u2" only queries.
Uploaders == {NoUser, "u1"}

(***************************************************************************)
(* Strings and String.prototype.toLowerCase / includes.                    *)
(***************************************************************************)
UpperChars ==
    <<"A","B","C","D","E","F","G","H","I","J","K","L","M",
      "N","O","P","Q","R","S","T","U","V","W","X","Y","Z">>

LowerChars ==
    <<"a","b","c","d","e","f","g","h","i","j","k","l","m",
      "n","o","p","q","r","s","t","u","v","w","x","y","z">>

\* The lower-case letter of each upper-case letter.
LowerOf ==
    [c \in {UpperChars[i] : i \in 1..Len(UpperChars)} |->
        LowerChars[CHOOSE i \in 1..Len(UpperChars) : UpperChars[i] = c]]

LowerChar(c) == IF c \in DOMAIN LowerOf THEN LowerOf[c] ELSE c

ToLowerCase(s) == [i \in 1..Len(s) |-> LowerChar(s[i])]

\* s.includes(sub): sub occurs in s as a contiguous run of characters.
Includes(s, sub) ==
    \E i \in 0..(Len(s) - Len(sub)) : SubSeq(s, i + 1, i + Len(sub)) = sub

(***************************************************************************)
(* The disease catalog written by seedDiseases.                            *)
(***************************************************************************)
SeedData ==
    << [name |-> <<"L","e","a","f"," ","S","p","o","t"," ","D","i","s","e","a","s","e">>,
        severity |-> "moderate",
        treatment |-> "Remove affected leaves immediately. Apply copper-based fungicide or neem oil spray. Improve drainage and reduce watering frequency. Ensure good air circulation around plants."],
       [name |-> <<"R","h","i","z","o","m","e"," ","R","o","t">>,
        severity |-> "high",
        treatment |-> "Remove affected plants immediately. Improve soil drainage. Apply fungicide drench with metalaxyl or fosetyl-al. Reduce watering and ensure proper soil aeration."],
       [name |-> <<"L","e","a","f"," ","B","l","i","g","h","t">>,
        severity |-> "moderate",
        treatment |-> "Apply copper oxychloride or mancozeb fungicide. Remove infected leaves and destroy them. Improve air circulation and reduce leaf wetness duration."],
       [name |-> <<"B","a","c","t","e","r","i","a","l"," ","W","i","l","t">>,
        severity |-> "high",
        treatment |-> "No effective cure once infected. Remove and destroy affected plants immediately. Treat soil with copper sulfate. Plant resistant varieties in future seasons."],
       [name |-> <<"H","e","a","l","t","h","y"," ","P","l","a","n","t">>,
        severity |-> "low",
        treatment |-> "Continue current care practices. Monitor regularly for any changes. Maintain optimal growing conditions with balanced fertilization and proper watering."] >>

AlreadySeeded == "Diseases already seeded"

SeededSuccessfully == "Diseases seeded successfully"

Severities == {"low", "moderate", "high"}

(***************************************************************************)
(* The classification response and its parsing (analyzeImage, 197-218).    *)
(*                                                                          *)
(* A response text is a sequence of tokens: "{" and "}" are single braces,  *)
(* "x" is a run of prose, "n" is a JSON number, and "o1".."o6" are complete *)
(* well-formed JSON objects "{...}" without inner braces.                   *)
(***************************************************************************)
ObjectTokens == {"o1", "o2", "o3", "o4", "o5", "o6"}

\* The fields of the JSON object a token stands for.  A field the object
\* lacks reads as undefined: Absent, or the severity "<undefined>".
Payload(tok) ==
    CASE tok = "o1" ->
           [detectedDisease |-> Present(<<"L","e","a","f">>),
            confidence |-> [isNumber |-> TRUE, n |-> 85],
            severity |-> "moderate",
            symptoms |-> Present(<<"Brown spots">>)]
      [] tok = "o2" ->
           [detectedDisease |-> Present(<<"R","u","s","t">>),
            confidence |-> [isNumber |-> TRUE, n |-> 60],
            severity |-> "low",
            symptoms |-> Present(<<"Orange pustules">>)]
      [] tok = "o3" ->
           [detectedDisease |-> Absent,
            confidence |-> [isNumber |-> TRUE, n |-> 70],
            severity |-> "high",
            symptoms |-> Present(<<"Wilting">>)]
      [] tok = "o4" ->
           [detectedDisease |-> Present(<<"S","e","v","e","r","e"," ","R","h","i","z","o","m","e"," ","R","o","t">>),
            confidence |-> [isNumber |-> TRUE, n |-> 90],
            severity |-> "severe",
            symptoms |-> Present(<<"Mushy rhizomes">>)]
      [] tok = "o5" ->
           [detectedDisease |-> Present(<<"L","E","A","F"," ","B","L","I","G","H","T">>),
            confidence |-> [isNumber |-> FALSE, n |-> 0],
            severity |-> "moderate",
            symptoms |-> Present(<<"Brown patches">>)]
      [] OTHER ->
           [detectedDisease |-> Present(<<"B","a","c","t","e","r","i","a","l"," ","W","i","l","t">>),
            confidence |-> [isNumber |-> TRUE, n |-> 75],
            severity |-> "high",
            symptoms |-> Absent]

\* A value none of whose fields is defined: {} or a JSON number.
NoFields ==
    [detectedDisease |-> Absent,
     confidence |-> [isNumber |-> FALSE, n |-> 0],
     severity |-> "<undefined>",
     symptoms |-> Absent]

ParsePlaceholder ==
    [detectedDisease |-> Present(<<"A","n","a","l","y","s","i","s"," ","E","r","r","o","r">>),
     confidence |-> [isNumber |-> TRUE, n |-> 0],
     severity |-> "moderate",
     symptoms |-> Present(<<"Unable to parse analysis results">>)]

Opens(tok) == tok = "{" \/ tok \in ObjectTokens

Closes(tok) == tok = "}" \/ tok \in ObjectTokens

\* analysisText.match(/\{[\s\S]*\}/): from the first "{" to the last "}".
\* Absent when no "{" is followed by a "}".
JsonMatch(text) ==
    LET opens == {i \in 1..Len(text) : Opens(text[i])}
        closes == {i \in 1..Len(text) : Closes(text[i])}
    IN  IF opens = {} \/ closes = {}
        THEN Absent
        ELSE LET first == CHOOSE i \in opens : \A j \in opens : i <= j
                 last == CHOOSE i \in closes : \A j \in closes : j <= i
             IN  IF first <= last
                 THEN Present(SubSeq(text, first, last))
                 ELSE Absent

JsonString(text) ==
    IF JsonMatch(text) # Absent THEN JsonMatch(text)[1] ELSE text

\* JSON.parse: "object", "number", or "SyntaxError" when it throws.
JsonParseKind(str) ==
    IF Len(str) = 1 /\ str[1] \in ObjectTokens THEN "object"
    ELSE IF str = <<"{", "}">> THEN "object"
    ELSE IF str = <<"n">> THEN "number"
    ELSE "SyntaxError"

JsonParse(str) ==
    IF Len(str) = 1 /\ str[1] \in ObjectTokens THEN Payload(str[1])
    ELSE NoFields

\* Mutant: the inner try/catch is missing its fallback, so a text JSON.parse
\* rejects leaves the result without fields.
ParseAnalysis_NoFallback(text) ==
    IF JsonParseKind(JsonString(text)) = "SyntaxError"
    THEN NoFields
    ELSE JsonParse(JsonString(text))

\* The try/catch around JSON.parse.
ParseAnalysis(text) ==
    IF JsonParseKind(JsonString(text)) = "SyntaxError"
    THEN ParsePlaceholder
    ELSE JsonParse(JsonString(text))

\* The responses the classification call returns in the model: no content,
\* prose, a bare object, an object inside prose, two objects, braces around
\* prose, reversed braces, an empty object, a bare number.
Responses ==
    { <<>>, <<"x">>, <<"x", "o1", "x">>, <<"o1", "x", "o2">>,
      <<"{", "x", "}">>, <<"}", "x", "{">>, <<"{", "}">>, <<"n">> }
    \cup { <<tok>> : tok \in ObjectTokens }

(***************************************************************************)
(* getTreatmentInfo's texts.                                               *)
(***************************************************************************)
AdviceText == "AI-generated treatment advice"

ConsultText ==
    "Consult with a local agricultural extension office for specific treatment recommendations."

UnableText ==
    "Unable to fetch treatment information. Please consult with a local agricultural expert or extension office for proper diagnosis and treatment recommendations."

RetryText == "Please try again with a clearer image of the turmeric leaf."

(***************************************************************************)
(* getTreatmentInfo's catalog match (275-278).                             *)
(***************************************************************************)
\* Mutant: only the first direction of the comparison.
Matches_OneWay(d, disease) ==
    Includes(ToLowerCase(d.name), ToLowerCase(disease))

\* d.name.toLowerCase().includes(disease.toLowerCase()) ||
\* disease.toLowerCase().includes(d.name.toLowerCase())
Matches(d, disease) ==
    \/ Includes(ToLowerCase(d.name), ToLowerCase(disease))
    \/ Includes(ToLowerCase(disease), ToLowerCase(d.name))

\* Mutant: the last matching element instead of the first.
FindMatch_Last(list, disease) ==
    LET hits == {i \in 1..Len(list) :
                    \/ Includes(ToLowerCase(list[i].name), ToLowerCase(disease))
                    \/ Includes(ToLowerCase(disease), ToLowerCase(list[i].name))}
    IN  IF hits = {}
        THEN Absent
        ELSE Present(list[CHOOSE i \in hits : \A j \in hits : j <= i])

\* Array.prototype.find: the first element that satisfies the predicate.
FindMatch(list, disease) ==
    LET hits == {i \in 1..Len(list) : Matches(list[i], disease)}
    IN  IF hits = {}
        THEN Absent
        ELSE Present(list[CHOOSE i \in hits : \A j \in hits : i <= j])

(***************************************************************************)
(* Argument validators of the internal functions.                          *)
(***************************************************************************)
\* getTreatmentInfo: disease v.string(), symptoms v.array(v.string()).
ValidTreatmentArgs(res) ==
    res.detectedDisease # Absent /\ res.symptoms # Absent

\* updateAnalysis: confidence v.number(), severity one of the three literals
\* (detectedDisease and symptoms were validated by getTreatmentInfo).
ValidUpdateArgs(res) ==
    /\ res.detectedDisease # Absent
    /\ res.symptoms # Absent
    /\ res.confidence.isNumber
    /\ res.severity \in Severities

(***************************************************************************)
(* State.                                                                  *)
(***************************************************************************)
VARIABLES
    diseases,        \* the diseases table, in insertion order
    seedReturns,     \* what each seedDiseases invocation returned, in order
    analyses,        \* the analyses table; a record's id is its position
    pc,              \* per analyzeImage run (indexed by the id of its record):
                     \*   the await the run is suspended at, or how it ended
    analysisText,    \* the classification response's content, once received
    analysisResult,  \* the parsed (or placeholder) result
    catalogRead,     \* the list getTreatmentInfo read from the catalog
    treatment,       \* what getTreatmentInfo returned
    error,           \* the error caught by analyzeImage's catch block
    thrown,          \* the error the run rejected with
    trace,           \* the calls the run has issued, in order
    writes,          \* the statuses of the updateAnalysis patches committed
    queryResult      \* what the last getUserAnalyses query returned

\* The client (App.tsx).  The component's status, analysisResult and error
\* are named appStatus, clientResult and clientError here: the backend part
\* above already uses those names.
VARIABLES
    appStatus,       \* useState<AppStatus>, 30 (status)
    selectedImage,   \* useState<string | null>, 31
    clientResult,    \* useState<AnalysisResult | null>, 32 (analysisResult)
    clientError,     \* useState<string | null>, 33 (error)
    getAnalysis,     \* what useQuery(api.analysis.getAnalysis, ...) returns, 41-44
    timeout,         \* the pending 15 s timer of the effect at 65-109: the
                     \*   status its callback closed over, if one is pending
    uploads,         \* per accepted upload: its file, the status its handler
                     \*   closed over, and what is pending for it (FileReader,
                     \*   2 s timer, analyzeImage call), with the status of the
                     \*   analysis record the call created
    current          \* the upload in progress or on display: its position in
                     \*   uploads, 0 before the first upload and after a reset

clientVars ==
    <<appStatus, selectedImage, clientResult, clientError, getAnalysis, timeout,
      uploads, current>>

backendVars ==
    <<diseases, seedReturns, analyses, pc, analysisText, analysisResult,
      catalogRead, treatment, error, thrown, trace, writes, queryResult>>

vars == <<backendVars, clientVars>>

runVars ==
    <<pc, analysisText, analysisResult, catalogRead, treatment, error,
      thrown, trace, writes>>

Runs == 1..Len(analyses)

NoQuery == [caller |-> NoUser, asked |-> FALSE, docs |-> <<>>]

\* 30-33: the component's initial state; nothing is pending.
ClientInit ==
    /\ appStatus = "IDLE"
    /\ selectedImage = Absent
    /\ clientResult = Absent
    /\ clientError = Absent
    /\ getAnalysis = Absent
    /\ timeout = Absent
    /\ uploads = <<>>
    /\ current = 0

Init ==
    /\ ClientInit
    /\ diseases = <<>>
    /\ seedReturns = <<>>
    /\ analyses = <<>>
    /\ pc = <<>>
    /\ analysisText = <<>>
    /\ analysisResult = <<>>
    /\ catalogRead = <<>>
    /\ treatment = <<>>
    /\ error = <<>>
    /\ thrown = <<>>
    /\ trace = <<>>
    /\ writes = <<>>
    /\ queryResult = NoQuery

(***************************************************************************)
(* seedDiseases (3-128): one transaction.                                   *)
(***************************************************************************)
\* Mutant: the check for existing entries is missing.
SeedDiseases_NoCheck ==
    /\ Len(seedReturns) < MaxSeedCalls
    /\ diseases' = diseases \o SeedData
    /\ seedReturns' = Append(seedReturns, SeededSuccessfully)
    /\ UNCHANGED <<analyses, runVars, queryResult, clientVars>>

SeedDiseases ==
    /\ Len(seedReturns) < MaxSeedCalls
    /\ IF diseases # <<>>
       THEN /\ diseases' = diseases
            /\ seedReturns' = Append(seedReturns, AlreadySeeded)
       ELSE /\ diseases' = diseases \o SeedData
            /\ seedReturns' = Append(seedReturns, SeededSuccessfully)
    /\ UNCHANGED <<analyses, runVars, queryResult, clientVars>>

(***************************************************************************)
(* createAnalysis (332-348) and updateAnalysis (350-369).                   *)
(***************************************************************************)
CreateAnalysis(userId, status) ==
    [userId |-> userId,
     imageUrl |-> Absent,
     imageStorageId |-> Absent,
     detectedDisease |-> <<>>,
     confidence |-> 0,
     severity |-> "moderate",
     symptoms |-> <<>>,
     treatment |-> "",
     sources |-> Absent,
     status |-> status]

\* ctx.db.patch(analysisId, updates): the named fields are overwritten.
UpdateAnalysis(doc, detectedDisease, confidence, severity, symptoms, text, sources, status) ==
    [doc EXCEPT !.detectedDisease = detectedDisease,
                !.confidence = confidence,
                !.severity = severity,
                !.symptoms = symptoms,
                !.treatment = text,
                !.sources = Present(sources),
                !.status = status]

(***************************************************************************)
(* analyzeImage (136-257).  Each action runs the handler from one await to  *)
(* the next.                                                                *)
(***************************************************************************)
\* getAuthUserId, then `userId || undefined`.
UserIdArg(caller) == IF caller = NoUser THEN Absent ELSE Present(caller)

\* 141-157: the record is created and the classification call is issued.
Start(caller, limit) ==
    /\ Len(analyses) < limit
    /\ analyses' = Append(analyses, CreateAnalysis(UserIdArg(caller), "analyzing"))
    /\ pc' = Append(pc, "classify")
    /\ analysisText' = Append(analysisText, <<>>)
    /\ analysisResult' = Append(analysisResult, Absent)
    /\ catalogRead' = Append(catalogRead, Absent)
    /\ treatment' = Append(treatment, Absent)
    /\ error' = Append(error, "")
    /\ thrown' = Append(thrown, "")
    /\ trace' = Append(trace, <<"createAnalysis", "classify">>)
    /\ writes' = Append(writes, <<>>)
    /\ UNCHANGED <<diseases, seedReturns, queryResult, clientVars>>

\* Mutant: a failed classification call is retried.
ClassifyThrows_Retry(r) ==
    /\ pc[r] = "classify"
    /\ trace' = [trace EXCEPT ![r] = Append(@, "classify")]
    /\ UNCHANGED <<diseases, seedReturns, analyses, pc, analysisText, analysisResult,
                   catalogRead, treatment, error, thrown, writes, queryResult, clientVars>>

\* 157: the classification call throws.
ClassifyThrows(r) ==
    /\ pc[r] = "classify"
    /\ pc' = [pc EXCEPT ![r] = "catch"]
    /\ error' = [error EXCEPT ![r] = "APIError: classification"]
    /\ UNCHANGED <<diseases, seedReturns, analyses, analysisText, analysisResult,
                   catalogRead, treatment, thrown, trace, writes, queryResult, clientVars>>

\* 197-224: the response arrives, is parsed, and getTreatmentInfo is called;
\* the call is rejected when its arguments fail validation.
ClassifyReturns(r, text) ==
    /\ pc[r] = "classify"
    /\ analysisText' = [analysisText EXCEPT ![r] = text]
    /\ IF text = <<>>
       THEN /\ pc' = [pc EXCEPT ![r] = "catch"]
            /\ error' = [error EXCEPT ![r] = "Error: No analysis received from AI"]
            /\ UNCHANGED <<analysisResult, trace>>
       ELSE /\ analysisResult' = [analysisResult EXCEPT ![r] = Present(ParseAnalysis(text))]
            /\ trace' = [trace EXCEPT ![r] = Append(@, "getTreatmentInfo")]
            /\ IF ValidTreatmentArgs(ParseAnalysis(text))
               THEN /\ pc' = [pc EXCEPT ![r] = "lookup"]
                    /\ UNCHANGED error
               ELSE /\ pc' = [pc EXCEPT ![r] = "catch"]
                    /\ error' = [error EXCEPT ![r] = "ArgumentValidationError: getTreatmentInfo"]
    /\ UNCHANGED <<diseases, seedReturns, analyses, catalogRead, treatment,
                   thrown, writes, queryResult, clientVars>>

\* getTreatmentInfo returns `result` to analyzeImage, which issues the
\* "completed" update (226-236).
TreatmentReturns(r, text) ==
    /\ treatment' = [treatment EXCEPT ![r] = Present([treatment |-> text, sources |-> <<>>])]
    /\ pc' = [pc EXCEPT ![r] = "update"]
    /\ trace' = [trace EXCEPT ![r] = Append(@, "updateAnalysis:completed")]

\* api.diseases.list: every entry of the diseases table, in table order.
ListDiseases == diseases

\* getTreatmentInfo 274-286: the catalog is read; a match returns its
\* treatment, otherwise the advice call is issued (288-313).
LookupQueryReturns(r) ==
    /\ pc[r] = "lookup"
    /\ catalogRead' = [catalogRead EXCEPT ![r] = Present(ListDiseases)]
    /\ LET matchedDisease == FindMatch(ListDiseases, analysisResult[r][1].detectedDisease[1])
       IN  IF matchedDisease # Absent
           THEN TreatmentReturns(r, matchedDisease[1].treatment)
           ELSE /\ pc' = [pc EXCEPT ![r] = "advice"]
                /\ trace' = [trace EXCEPT ![r] = Append(@, "advice")]
                /\ UNCHANGED treatment
    /\ UNCHANGED <<diseases, seedReturns, analyses, analysisText, analysisResult,
                   error, thrown, writes, queryResult, clientVars>>

\* getTreatmentInfo 274, 322-328: the catalog query throws.
LookupQueryThrows(r) ==
    /\ pc[r] = "lookup"
    /\ TreatmentReturns(r, UnableText)
    /\ UNCHANGED <<diseases, seedReturns, analyses, analysisText, analysisResult,
                   catalogRead, error, thrown, writes, queryResult, clientVars>>

\* Mutant: getTreatmentInfo adds the advice it fetched to the catalog.
AdviceReturns_CachesTreatment(r, content) ==
    /\ pc[r] = "advice"
    /\ TreatmentReturns(r, IF content = "" THEN ConsultText ELSE content)
    /\ diseases' = Append(diseases,
                      [name |-> analysisResult[r][1].detectedDisease[1],
                       severity |-> "moderate", treatment |-> content])
    /\ UNCHANGED <<seedReturns, analyses, analysisText, analysisResult,
                   catalogRead, error, thrown, writes, queryResult, clientVars>>

\* getTreatmentInfo 315-321: the advice call returns `content` ("" for none).
AdviceReturns(r, content) ==
    /\ pc[r] = "advice"
    /\ TreatmentReturns(r, IF content = "" THEN ConsultText ELSE content)
    /\ UNCHANGED <<diseases, seedReturns, analyses, analysisText, analysisResult,
                   catalogRead, error, thrown, writes, queryResult, clientVars>>

\* Mutant: the advice call's error leaves getTreatmentInfo and reaches
\* analyzeImage's catch block.
AdviceThrows_Propagates(r) ==
    /\ pc[r] = "advice"
    /\ pc' = [pc EXCEPT ![r] = "catch"]
    /\ error' = [error EXCEPT ![r] = "APIError: treatment advice"]
    /\ UNCHANGED <<diseases, seedReturns, analyses, analysisText, analysisResult,
                   catalogRead, treatment, thrown, trace, writes, queryResult,
                   clientVars>>

\* getTreatmentInfo 294, 322-328: the advice call throws.
AdviceThrows(r) ==
    /\ pc[r] = "advice"
    /\ TreatmentReturns(r, UnableText)
    /\ UNCHANGED <<diseases, seedReturns, analyses, analysisText, analysisResult,
                   catalogRead, error, thrown, writes, queryResult, clientVars>>

\* Mutant: the run returns its id without committing the "completed" patch.
CompleteUpdate_Unpatched(r) ==
    /\ pc[r] = "update"
    /\ pc' = [pc EXCEPT ![r] = "returned"]
    /\ UNCHANGED <<diseases, seedReturns, analyses, analysisText, analysisResult,
                   catalogRead, treatment, error, thrown, trace, writes, queryResult,
                   clientVars>>

\* 227-238: the "completed" update commits and the id is returned, or its
\* arguments fail validation and nothing is written.
CompleteUpdate(r) ==
    /\ pc[r] = "update"
    /\ LET res == analysisResult[r][1]
       IN  IF ValidUpdateArgs(res)
           THEN /\ analyses' = [analyses EXCEPT ![r] =
                        UpdateAnalysis(@, res.detectedDisease[1], res.confidence.n,
                                       res.severity, res.symptoms[1],
                                       treatment[r][1].treatment,
                                       treatment[r][1].sources, "completed")]
                /\ writes' = [writes EXCEPT ![r] = Append(@, "completed")]
                /\ pc' = [pc EXCEPT ![r] = "returned"]
                /\ UNCHANGED error
           ELSE /\ pc' = [pc EXCEPT ![r] = "catch"]
                /\ error' = [error EXCEPT ![r] = "ArgumentValidationError: updateAnalysis"]
                /\ UNCHANGED <<analyses, writes>>
    /\ UNCHANGED <<diseases, seedReturns, analysisText, analysisResult,
                   catalogRead, treatment, thrown, trace, queryResult, clientVars>>

\* Mutant: the "completed" patch is committed although the call rejects.
CompleteUpdateFails_AfterCommit(r) ==
    /\ pc[r] = "update"
    /\ analyses' = [analyses EXCEPT ![r].status = "completed"]
    /\ writes' = [writes EXCEPT ![r] = Append(@, "completed")]
    /\ pc' = [pc EXCEPT ![r] = "catch"]
    /\ error' = [error EXCEPT ![r] = "Error: updateAnalysis failed"]
    /\ UNCHANGED <<diseases, seedReturns, analysisText, analysisResult,
                   catalogRead, treatment, thrown, trace, queryResult, clientVars>>

\* 227: the "completed" mutation fails.  A Convex mutation is a transaction:
\* one that rejects has written nothing.
CompleteUpdateFails(r) ==
    /\ pc[r] = "update"
    /\ pc' = [pc EXCEPT ![r] = "catch"]
    /\ error' = [error EXCEPT ![r] = "Error: updateAnalysis failed"]
    /\ UNCHANGED <<diseases, seedReturns, analyses, analysisText, analysisResult,
                   catalogRead, treatment, thrown, trace, writes, queryResult, clientVars>>

\* 239-254: the catch block marks the record failed and rethrows.
MarkFailed(r) ==
    /\ pc[r] = "catch"
    /\ analyses' = [analyses EXCEPT ![r] =
            UpdateAnalysis(@, <<"A","n","a","l","y","s","i","s"," ","F","a","i","l","e","d">>,
                           0, "moderate", <<"Unable to analyze image">>,
                           RetryText, <<>>, "failed")]
    /\ writes' = [writes EXCEPT ![r] = Append(@, "failed")]
    /\ trace' = [trace EXCEPT ![r] = Append(@, "updateAnalysis:failed")]
    /\ thrown' = [thrown EXCEPT ![r] = error[r]]
    /\ pc' = [pc EXCEPT ![r] = "thrown"]
    /\ UNCHANGED <<diseases, seedReturns, analysisText, analysisResult,
                   catalogRead, treatment, error, queryResult, clientVars>>

\* 243: the "failed" mutation itself fails: the await inside the catch block
\* rejects, line 254 is not reached and the run rejects with that error.
MarkFailedFails(r) ==
    /\ pc[r] = "catch"
    /\ trace' = [trace EXCEPT ![r] = Append(@, "updateAnalysis:failed")]
    /\ thrown' = [thrown EXCEPT ![r] = "Error: updateAnalysis failed"]
    /\ pc' = [pc EXCEPT ![r] = "thrown"]
    /\ UNCHANGED <<diseases, seedReturns, analyses, analysisText, analysisResult,
                   catalogRead, treatment, error, writes, queryResult, clientVars>>

(***************************************************************************)
(* getUserAnalyses (380-392).                                               *)
(***************************************************************************)
\* The ids of the caller's records, oldest first: the by_user index range.
ByUser(table, userId) ==
    {i \in 1..Len(table) : table[i].userId = Present(userId)}

\* The elements of a finite set of numbers, largest first.
RECURSIVE Descending(_)
Descending(ids) ==
    IF ids = {}
    THEN <<>>
    ELSE LET top == CHOOSE i \in ids : \A j \in ids : j <= i
         IN  <<top>> \o Descending(ids \ {top})

Take(seq, n) == SubSeq(seq, 1, IF Len(seq) < n THEN Len(seq) ELSE n)

\* Mutant: the order("desc") is missing, so the oldest records are taken.
UserAnalyses_Oldest(table, caller) ==
    IF caller = NoUser
    THEN <<>>
    ELSE LET desc == Descending(ByUser(table, caller))
             ids == Take([k \in 1..Len(desc) |-> desc[Len(desc) + 1 - k]], TakeLimit)
         IN  [k \in 1..Len(ids) |-> [id |-> ids[k], doc |-> table[ids[k]]]]

\* .withIndex("by_user", eq userId).order("desc").take(10), as documents.
UserAnalyses(table, caller) ==
    IF caller = NoUser
    THEN <<>>
    ELSE LET ids == Take(Descending(ByUser(table, caller)), TakeLimit)
         IN  [k \in 1..Len(ids) |-> [id |-> ids[k], doc |-> table[ids[k]]]]

GetUserAnalyses(caller) ==
    /\ queryResult' = [caller |-> caller, asked |-> TRUE,
                       docs |-> UserAnalyses(analyses, caller)]
    /\ UNCHANGED <<diseases, seedReturns, analyses, runVars, clientVars>>

(***************************************************************************)
(* The client: the App component of App.tsx (30-225) and the parts of      *)
(* HomeView that decide which handlers the user can reach (458-545).       *)
(*                                                                          *)
(* A handler's state updates are batched into one render, and the effects  *)
(* of that render run before anything else happens: an action below is a   *)
(* handler or callback followed by the render and its effects.  Results    *)
(* keep the fields _id, detectedDisease, confidence and status.            *)
(***************************************************************************)
\* 121: 10 * 1024 * 1024.
MaxFileSize == 10485760

\* s.startsWith(prefix).
StartsWith(s, prefix) ==
    /\ Len(prefix) <= Len(s)
    /\ SubSeq(s, 1, Len(prefix)) = prefix

ImagePrefix == <<"i","m","a","g","e","/">>

ImagePng == <<"i","m","a","g","e","/","p","n","g">>

TextPlain == <<"t","e","x","t","/","p","l","a","i","n">>

XImagePng == <<"x","-","i","m","a","g","e","/","p","n","g">>

\* The files the user picks: `accept="image/*"` (579) is a hint to the file
\* dialog, so any type can arrive; sizes sit on both sides of the limit.
Files ==
    {[type |-> t, size |-> n] :
        t \in {ImagePng, TextPlain, XImagePng, <<>>},
        n \in {1024, MaxFileSize, MaxFileSize + 1}}

\* Mutant: the type is accepted when "image/" occurs anywhere in it.
IsImage_Includes(file) == Includes(file.type, ImagePrefix)

\* Mutant: a file of exactly the limit is rejected.
TooLarge_AtLimit(file) == file.size >= MaxFileSize

\* 114, 121: the two validations of handleImageUpload.
IsImage(file) == StartsWith(file.type, ImagePrefix)

TooLarge(file) == file.size > MaxFileSize

InvalidTypeMessage == "Please select a valid image file"

TooLargeMessage == "Image size must be less than 10MB"

ReadFailedMessage == "Failed to read image file"

UploadFailedMessage == "Upload failed: Unknown error"

AnalysisFailedMessage == "Analysis failed. Please try again."

\* FileReader.readAsDataURL: the data URL of the file's content.
DataUrl(file) == [mediaType |-> file.type, bytes |-> file.size]

MockWord == <<"m","o","c","k">>

DebugTestId == <<"d","e","b","u","g","_","t","e","s","t">>

ForcedMockId ==
    <<"f","o","r","c","e","d","_","m","o","c","k","_","a","n","a","l","y","s","i","s">>

TimeoutMockId ==
    <<"t","i","m","e","o","u","t","_","m","o","c","k","_","a","n","a","l","y","s","i","s">>

IdDigits == <<"1", "2", "3", "4", "5", "6", "7", "8", "9">>

\* The id createAnalysis gave the record of upload k's analyzeImage call.
RealId(k) == <<"j", "5", "7", IdDigits[k]>>

\* 38-40.
isMockId(id) == Includes(id, MockWord) \/ id = DebugTestId

\* 143-174: the result the 2 s timer installs.
ForcedMockResult ==
    [_id |-> ForcedMockId, detectedDisease |-> "Leaf Spot Disease",
     confidence |-> 85, status |-> "completed"]

\* 73-99: the result the 15 s timer installs.
TimeoutMockResult ==
    [_id |-> TimeoutMockId, detectedDisease |-> "Leaf Analysis Complete",
     confidence |-> 78, status |-> "completed"]

\* 188-196: the result installed when analyzeImage returns an id.
EmptyPlaceholder(id) ==
    [_id |-> id, detectedDisease |-> "", confidence |-> 0, status |-> "analyzing"]

ClientUploads == 1..Len(uploads)

\* The analysis record of upload k as the getAnalysis query (371-378) reads
\* it: created by createAnalysis, patched once by analyzeImage.
AnalysisDoc(k) ==
    LET st == uploads[k].doc
    IN  [_id |-> RealId(k),
         detectedDisease |-> CASE st = "completed" -> "Leaf Blight"
                               [] st = "failed" -> "Analysis Failed"
                               [] OTHER -> "",
         confidence |-> IF st = "completed" THEN 90 ELSE 0,
         status |-> st]

\* 41-44: the query is skipped without a result or with a mock id; with
\* another id than before its value is undefined until the record arrives.
Subscribed(res, ga) ==
    IF res = Absent \/ isMockId(res[1]._id)
    THEN Absent
    ELSE IF ga # Absent /\ ga[1]._id = res[1]._id THEN ga ELSE Absent

\* Mutant: the cleanup of the timer effect is missing.
Render_NoCleanup(st, img, res, err, ga) ==
    LET q == Subscribed(res, ga)
        completed == q # Absent /\ q[1].status = "completed" /\ st # "COMPLETED"
        failed == q # Absent /\ q[1].status = "failed" /\ st # "ERROR"
        st2 == IF completed THEN "COMPLETED" ELSE IF failed THEN "ERROR" ELSE st
    IN  /\ appStatus' = st2
        /\ selectedImage' = img
        /\ clientResult' = IF completed THEN q ELSE res
        /\ clientError' = IF failed THEN Present(AnalysisFailedMessage) ELSE err
        /\ getAnalysis' = q
        /\ timeout' = IF st2 \in {"ANALYZING", "SEARCHING"} /\ st2 # appStatus
                      THEN Present(st2)
                      ELSE timeout

\* The render after a handler set the state to (st, img, res, err), with ga
\* the query's value so far, and that render's effects: 47-53 adopts a
\* completed record, 56-62 reports a failed one, 65-109 starts the 15 s
\* timer on a change of status to ANALYZING or SEARCHING and its cleanup
\* clears the timer on every other change.
Render(st, img, res, err, ga) ==
    LET q == Subscribed(res, ga)
        completed == q # Absent /\ q[1].status = "completed" /\ st # "COMPLETED"
        failed == q # Absent /\ q[1].status = "failed" /\ st # "ERROR"
        st2 == IF completed THEN "COMPLETED" ELSE IF failed THEN "ERROR" ELSE st
    IN  /\ appStatus' = st2
        /\ selectedImage' = img
        /\ clientResult' = IF completed THEN q ELSE res
        /\ clientError' = IF failed THEN Present(AnalysisFailedMessage) ELSE err
        /\ getAnalysis' = q
        /\ timeout' = IF st2 = appStatus THEN timeout
                      ELSE IF st2 \in {"ANALYZING", "SEARCHING"} THEN Present(st2)
                      ELSE Absent

\* 534, 574, 582: the picker is rendered by renderIdleState and enabled only
\* in IDLE.
PickerEnabled == appStatus = "IDLE"

\* 477-500, 892: the reset button is part of the result display and of the
\* error display.
ResetOffered ==
    \/ appStatus = "ERROR"
    \/ appStatus = "COMPLETED" /\ clientResult # Absent /\ selectedImage # Absent

\* handleImageUpload up to reader.readAsDataURL (111-216).  `threw` is the
\* try block failing (new FileReader or readAsDataURL throwing, 211-215).
handleImageUpload(file, threw) ==
    /\ PickerEnabled
    /\ IF ~IsImage(file)
       THEN /\ Render("ERROR", selectedImage, clientResult,
                      Present(InvalidTypeMessage), getAnalysis)
            /\ UNCHANGED <<uploads, current>>
       ELSE IF TooLarge(file)
       THEN /\ Render("ERROR", selectedImage, clientResult,
                      Present(TooLargeMessage), getAnalysis)
            /\ UNCHANGED <<uploads, current>>
       ELSE IF threw
       THEN /\ Render("ERROR", selectedImage, clientResult,
                      Present(UploadFailedMessage), getAnalysis)
            /\ UNCHANGED <<uploads, current>>
       ELSE /\ Len(uploads) < MaxUploads
            /\ Render("ANALYZING", selectedImage, clientResult, Absent, getAnalysis)
            /\ uploads' = Append(uploads,
                              [file |-> file, closure |-> appStatus,
                               reader |-> "reading", timer |-> "none",
                               call |-> "none", doc |-> "none"])
            /\ current' = Len(uploads) + 1
    /\ UNCHANGED backendVars

\* reader.onload (134-202) up to `await analyzeImage`: the image is shown,
\* the 2 s timer is set and the backend call is issued (its record is
\* created with status "analyzing", seedDiseases.ts 141-149).
ReaderOnLoad(k) ==
    /\ uploads[k].reader = "reading"
    /\ uploads' = [uploads EXCEPT ![k].reader = "loaded", ![k].timer = "pending",
                                  ![k].call = "pending", ![k].doc = "analyzing"]
    /\ Render("SEARCHING", Present(DataUrl(uploads[k].file)), clientResult,
              clientError, getAnalysis)
    /\ UNCHANGED <<current, backendVars>>

\* reader.onerror (204-208).
ReaderOnError(k) ==
    /\ uploads[k].reader = "reading"
    /\ uploads' = [uploads EXCEPT ![k].reader = "failed"]
    /\ Render("ERROR", selectedImage, clientResult, Present(ReadFailedMessage),
              getAnalysis)
    /\ UNCHANGED <<current, backendVars>>

\* Mutant: the 2 s timer stays set and never applies its result.
MockTimerFires_Never(k) ==
    /\ uploads[k].timer = "pending"
    /\ UNCHANGED vars

\* The 2 s timer's callback (139-178).
MockTimerFires(k) ==
    /\ uploads[k].timer = "pending"
    /\ uploads' = [uploads EXCEPT ![k].timer = "fired"]
    /\ Render("COMPLETED", selectedImage, Present(ForcedMockResult), clientError,
              getAnalysis)
    /\ UNCHANGED <<current, backendVars>>

\* analyzeImage returned the id of its record (seedDiseases.ts 228-238:
\* after the record was patched to "completed"); 183-197 runs with the
\* status the handler closed over.
AnalyzeImageReturns(k) ==
    /\ uploads[k].call = "pending"
    /\ uploads' = [uploads EXCEPT ![k].call = "returned", ![k].doc = "completed"]
    /\ Render(appStatus, selectedImage,
              IF uploads[k].closure # "COMPLETED"
              THEN Present(EmptyPlaceholder(RealId(k)))
              ELSE clientResult,
              clientError, getAnalysis)
    /\ UNCHANGED <<current, backendVars>>

\* analyzeImage rejected (seedDiseases.ts 239-255): its record was patched to
\* "failed", or kept "analyzing" when that patch was rejected too; 198-201
\* logs the error.
AnalyzeImageRejects(k, doc) ==
    /\ uploads[k].call = "pending"
    /\ uploads' = [uploads EXCEPT ![k].call = "rejected", ![k].doc = doc]
    /\ UNCHANGED <<appStatus, selectedImage, clientResult, clientError, getAnalysis,
                   timeout, current, backendVars>>

\* The getAnalysis subscription (41-44) delivers the record of the result's
\* id.
GetAnalysisDelivers ==
    /\ clientResult # Absent
    /\ ~isMockId(clientResult[1]._id)
    /\ \E k \in ClientUploads :
          /\ RealId(k) = clientResult[1]._id
          /\ getAnalysis # Present(AnalysisDoc(k))
          /\ Render(appStatus, selectedImage, clientResult, clientError,
                    Present(AnalysisDoc(k)))
    /\ UNCHANGED <<uploads, current, backendVars>>

\* The 15 s timer's callback (69-102).  A pending 2 s timer was set no later
\* than the last change of status, so it fires first.
TimeoutFires ==
    /\ timeout # Absent
    /\ \A k \in ClientUploads : uploads[k].timer # "pending"
    /\ IF timeout[1] # "COMPLETED"
       THEN Render("COMPLETED", selectedImage, Present(TimeoutMockResult),
                   clientError, getAnalysis)
       ELSE Render(appStatus, selectedImage, clientResult, clientError, getAnalysis)
    /\ UNCHANGED <<uploads, current, backendVars>>

\* resetAnalysis (218-225).
resetAnalysis ==
    /\ ResetOffered
    /\ Render("IDLE", Absent, Absent, Absent, getAnalysis)
    /\ current' = 0
    /\ UNCHANGED <<uploads, backendVars>>

(***************************************************************************)
(* Specifications.                                                          *)
(***************************************************************************)
\* The orchestrator: seeding and the runs of analyzeImage started by the
\* signed-in user, interleaved at their awaits.
Next ==
    \/ SeedDiseases
    \/ Start("u1", MaxRuns)
    \/ \E r \in Runs : ClassifyThrows(r)
    \/ \E r \in Runs : \E text \in Responses : ClassifyReturns(r, text)
    \/ \E r \in Runs : LookupQueryReturns(r)
    \/ \E r \in Runs : LookupQueryThrows(r)
    \/ \E r \in Runs : \E content \in {AdviceText, ""} : AdviceReturns(r, content)
    \/ \E r \in Runs : AdviceThrows(r)
    \/ \E r \in Runs : CompleteUpdate(r)
    \/ \E r \in Runs : CompleteUpdateFails(r)
    \/ \E r \in Runs : MarkFailed(r)
    \/ \E r \in Runs : MarkFailedFails(r)

Spec == Init /\ [][Next]_vars

\* The history query: uploads by a signed-in and by an anonymous caller
\* create records (their runs still await the classification), and any
\* caller asks for their history.
QueryNext ==
    \/ \E caller \in Uploaders : Start(caller, MaxAnalyses)
    \/ \E caller \in Users \cup {NoUser} : GetUserAnalyses(caller)

QuerySpec == Init /\ [][QueryNext]_vars

\* getTreatmentInfo over bounded inputs: a run whose classification returned
\* a bare JSON object and that is about to look up the treatment for its
\* detected name, any name of at most MaxNameLen characters, against a
\* catalog of at most MaxCatalog entries.  (The object token kept as the
\* response text stands for that object; getTreatmentInfo does not read it.)
NameChars == {"a", "A", "b"}

NamesUpTo(n) == UNION {[1..k -> NameChars] : k \in 0..n}

SampleNames == {<<"a", "b">>, <<"A">>, <<"B", "a">>}

SampleTreatments == <<"treatment 1", "treatment 2", "treatment 3", "treatment 4">>

SampleCatalog(names) ==
    [i \in 1..Len(names) |->
        [name |-> names[i], severity |-> "low", treatment |-> SampleTreatments[i]]]

MatchInit ==
    /\ ClientInit
    /\ diseases \in {SampleCatalog(names) :
                        names \in UNION {[1..k -> SampleNames] : k \in 0..MaxCatalog}}
    /\ seedReturns = <<>>
    /\ analyses = <<CreateAnalysis(Present("u1"), "analyzing")>>
    /\ pc = <<"lookup">>
    /\ analysisText = << <<"o1">> >>
    /\ analysisResult \in
          {<<Present([Payload("o1") EXCEPT !.detectedDisease = Present(name)])>> :
              name \in NamesUpTo(MaxNameLen)}
    /\ catalogRead = <<Absent>>
    /\ treatment = <<Absent>>
    /\ error = <<"">>
    /\ thrown = <<"">>
    /\ trace = << <<"createAnalysis", "classify", "getTreatmentInfo">> >>
    /\ writes = << <<>> >>
    /\ queryResult = NoQuery

MatchNext ==
    \/ \E r \in Runs : LookupQueryReturns(r)
    \/ \E r \in Runs : LookupQueryThrows(r)
    \/ \E r \in Runs : \E content \in {AdviceText, ""} : AdviceReturns(r, content)
    \/ \E r \in Runs : AdviceThrows(r)

MatchSpec == MatchInit /\ [][MatchNext]_vars

\* The client: the user picks files and resets, and the callbacks of the
\* uploads (FileReader, timers, analyzeImage, the getAnalysis subscription)
\* arrive in any order.  The backend is seen through what analyzeImage and
\* getAnalysis deliver.
ClientNext ==
    \/ \E file \in Files : \E threw \in BOOLEAN : handleImageUpload(file, threw)
    \/ \E k \in ClientUploads : ReaderOnLoad(k)
    \/ \E k \in ClientUploads : ReaderOnError(k)
    \/ \E k \in ClientUploads : MockTimerFires(k)
    \/ \E k \in ClientUploads : AnalyzeImageReturns(k)
    \/ \E k \in ClientUploads : \E doc \in {"failed", "analyzing"} :
          AnalyzeImageRejects(k, doc)
    \/ GetAnalysisDelivers
    \/ TimeoutFires
    \/ resetAnalysis

ClientSpec == Init /\ [][ClientNext]_vars

\* The client with callbacks that arrive: a started FileReader ends with
\* onload or onerror, and a timer that stays set fires.  Nothing is assumed
\* of analyzeImage and of the user.
ClientFairness ==
    /\ \A k \in 1..MaxUploads :
          WF_vars(k \in ClientUploads /\ (ReaderOnLoad(k) \/ ReaderOnError(k)))
    /\ \A k \in 1..MaxUploads :
          WF_vars(k \in ClientUploads /\ MockTimerFires(k))
    /\ WF_vars(TimeoutFires)

ClientFairSpec == ClientSpec /\ ClientFairness

(***************************************************************************)
(* Properties.                                                              *)
(***************************************************************************)
Terminal == {"completed", "failed"}

Ended(r) == pc[r] \in {"returned", "thrown"}

Range(seq) == {seq[i] : i \in 1..Len(seq)}

AnalysisFailedName == <<"A","n","a","l","y","s","i","s"," ","F","a","i","l","e","d">>

\* The record as the catch block of analyzeImage writes it.
IsFailedDoc(doc) ==
    /\ doc.status = "failed"
    /\ doc.detectedDisease = AnalysisFailedName
    /\ doc.confidence = 0
    /\ doc.severity = "moderate"
    /\ doc.symptoms = <<"Unable to analyze image">>
    /\ doc.treatment = RetryText
    /\ doc.sources = Present(<<>>)

\* The record completed with the parse-failure placeholder.
IsPlaceholderDoc(doc) ==
    /\ doc.status = "completed"
    /\ doc.detectedDisease = <<"A","n","a","l","y","s","i","s"," ","E","r","r","o","r">>
    /\ doc.confidence = 0
    /\ doc.severity = "moderate"
    /\ doc.symptoms = <<"Unable to parse analysis results">>

\* a contains b, compared case-insensitively: b is a window of a.
ContainsCI(a, b) ==
    \E from \in 1..(Len(a) + 1) :
        /\ from + Len(b) - 1 <= Len(a)
        /\ \A k \in 1..Len(b) : LowerChar(a[from + k - 1]) = LowerChar(b[k])

NamesMatch(name, detected) == ContainsCI(name, detected) \/ ContainsCI(detected, name)

\* C1: every record starts "analyzing", and its status changes only from
\* "analyzing" to "completed" or to "failed"; a terminal status never
\* changes, and no record disappears.
C1_StatusTransitions ==
    [][ /\ Len(analyses') >= Len(analyses)
        /\ \A r \in 1..Len(analyses') :
              IF r > Len(analyses)
              THEN analyses'[r].status = "analyzing"
              ELSE analyses'[r].status # analyses[r].status
                      => /\ analyses[r].status = "analyzing"
                         /\ analyses'[r].status \in Terminal ]_vars

\* C1 witness: the "completed" update was rejected and the record was then
\* marked failed.
C1_Witness ==
    \E r \in Runs :
        /\ pc[r] = "thrown"
        /\ error[r] = "Error: updateAnalysis failed"
        /\ analyses[r].status = "failed"

\* C2: every run that has ended has left its record "completed" or "failed"
\* (the finite form of: no record remains "analyzing" forever).
C2_EndedRunsAreTerminal ==
    \A r \in Runs : Ended(r) => analyses[r].status \in Terminal

\* C3: whenever the try block threw and the run has ended, the record holds
\* the fixed "failed" fields and the caller received the original error.
C3_FailureMarkedAndRethrown ==
    \A r \in Runs :
        (pc[r] = "thrown" /\ error[r] # "")
            => IsFailedDoc(analyses[r]) /\ thrown[r] = error[r]

\* C4: a run that has ended has committed exactly one updateAnalysis write
\* to its record.
C4_ExactlyOneWrite ==
    \A r \in Runs : Ended(r) => Len(writes[r]) = 1

\* C5 as stated: a non-empty response from which no JSON object is parsed
\* ends with the record "completed" holding the placeholder, and the run
\* returns.
C5_UnparsedTextCompletes ==
    \A r \in Runs :
        (/\ Ended(r)
         /\ analysisText[r] # <<>>
         /\ JsonParseKind(JsonString(analysisText[r])) # "object")
            => pc[r] = "returned" /\ IsPlaceholderDoc(analyses[r])

\* C5 amended: a non-empty response on which JSON.parse throws gets the
\* placeholder as its result and reaches the treatment lookup; the run then
\* returns with the record "completed" holding the placeholder, and ends in
\* the catch block only when the "completed" update itself was rejected.
C5_SyntaxErrorGetsPlaceholder ==
    \A r \in Runs :
        (/\ analysisText[r] # <<>>
         /\ JsonParseKind(JsonString(analysisText[r])) = "SyntaxError")
            => /\ analysisResult[r] = Present(ParsePlaceholder)
               /\ "getTreatmentInfo" \in Range(trace[r])
               /\ pc[r] = "returned" => IsPlaceholderDoc(analyses[r])
               /\ pc[r] \in {"catch", "thrown"} => error[r] = "Error: updateAnalysis failed"

\* C5 witness: two objects in one text do not parse; the run returned with
\* the placeholder in the completed record.
C5_Witness ==
    \E r \in Runs :
        /\ analysisText[r] = <<"o1", "x", "o2">>
        /\ pc[r] = "returned"
        /\ IsPlaceholderDoc(analyses[r])

\* The first entry of the list whose name matches the detected name.
FirstNamesMatch(list, detected) ==
    CHOOSE i \in 1..Len(list) :
        /\ NamesMatch(list[i].name, detected)
        /\ \A j \in 1..(i - 1) : ~NamesMatch(list[j].name, detected)

\* C6 as stated: whenever getTreatmentInfo has returned and some catalog
\* entry matches the detected name, it returned the first matching entry's
\* treatment with empty sources.
C6_MatchReturnsCatalogTreatment ==
    \A r \in Runs :
        LET detected == analysisResult[r][1].detectedDisease[1]
        IN  (/\ treatment[r] # Absent
             /\ \E i \in 1..Len(diseases) : NamesMatch(diseases[i].name, detected))
                => treatment[r][1] =
                      [treatment |-> diseases[FirstNamesMatch(diseases, detected)].treatment,
                       sources |-> <<>>]

\* C6 amended: whenever getTreatmentInfo has read the catalog and some entry
\* of the list it read matches the detected name, it returns the first
\* matching entry's treatment with empty sources.
C6_MatchAfterCatalogRead ==
    \A r \in Runs :
        (catalogRead[r] # Absent /\ analysisResult[r] # Absent)
            => LET list == catalogRead[r][1]
                   detected == analysisResult[r][1].detectedDisease[1]
               IN  (\E i \in 1..Len(list) : NamesMatch(list[i].name, detected))
                      => treatment[r] =
                            Present([treatment |-> list[FirstNamesMatch(list, detected)].treatment,
                                     sources |-> <<>>])

\* C6 witness: two entries match, the second one only because it is
\* contained in the detected name; the first one's treatment was returned.
C6_Witness ==
    \E r \in Runs :
        /\ catalogRead[r] # Absent
        /\ Len(catalogRead[r][1]) = 2
        /\ catalogRead[r][1][1].name = <<"B", "a">>
        /\ catalogRead[r][1][2].name = <<"A">>
        /\ analysisResult[r][1].detectedDisease[1] = <<"b", "A">>
        /\ treatment[r] = Present([treatment |-> "treatment 1", sources |-> <<>>])

\* C7: the advice call is issued only after the catalog was read and none of
\* the entries read matches the detected name.
C7_AdviceOnlyWithoutMatch ==
    \A r \in Runs :
        "advice" \in Range(trace[r])
            => /\ catalogRead[r] # Absent
               /\ \A i \in 1..Len(catalogRead[r][1]) :
                     ~NamesMatch(catalogRead[r][1][i].name,
                                 analysisResult[r][1].detectedDisease[1])

\* C7 witness: the seeded catalog was read, nothing matched, and the advice
\* call is in flight.
C7_Witness ==
    \E r \in Runs :
        /\ pc[r] = "advice"
        /\ catalogRead[r] = Present(SeedData)

CallRank(call) ==
    CASE call = "createAnalysis" -> 1
      [] call = "classify" -> 2
      [] call = "getTreatmentInfo" -> 3
      [] call = "advice" -> 4
      [] call = "updateAnalysis:completed" -> 5
      [] OTHER -> 6

\* C8: a run issues its calls in the order create record, classification,
\* treatment lookup (with its advice call), terminal update, each at most
\* once, and while it awaits a call that call is the last one it issued.
C8_SequentialSingleCalls ==
    \A r \in Runs :
        /\ Len(trace[r]) >= 2
        /\ trace[r][1] = "createAnalysis"
        /\ trace[r][2] = "classify"
        /\ \A i \in 1..(Len(trace[r]) - 1) :
              CallRank(trace[r][i]) < CallRank(trace[r][i + 1])
        /\ pc[r] = "classify" => trace[r][Len(trace[r])] = "classify"
        /\ pc[r] = "lookup" => trace[r][Len(trace[r])] = "getTreatmentInfo"
        /\ pc[r] = "advice" => trace[r][Len(trace[r])] = "advice"
        /\ pc[r] = "update" => trace[r][Len(trace[r])] = "updateAnalysis:completed"

\* C8 witness: a run that went through every call, the "completed" update
\* having been rejected.
C8_Witness ==
    \E r \in Runs :
        trace[r] = <<"createAnalysis", "classify", "getTreatmentInfo", "advice",
                     "updateAnalysis:completed", "updateAnalysis:failed">>

\* C9: after any number of seedDiseases invocations the table holds exactly
\* the five seeded entries; the first invocation returned "Diseases seeded
\* successfully" and every later one "Diseases already seeded".
C9_SeedIdempotent ==
    /\ Len(seedReturns) = 0 => diseases = <<>>
    /\ Len(seedReturns) >= 1 =>
          /\ diseases = SeedData
          /\ Len(diseases) = 5
          /\ seedReturns[1] = SeededSuccessfully
          /\ \A i \in 2..Len(seedReturns) : seedReturns[i] = AlreadySeeded

\* C9 witness: a second invocation returned "Diseases already seeded".
C9_Witness ==
    /\ Len(seedReturns) >= 2
    /\ seedReturns[2] = AlreadySeeded
    /\ Len(diseases) = 5

\* What getUserAnalyses must return to `caller` from `table`.
HistoryCorrect(caller, docs, table) ==
    LET ids == {docs[k].id : k \in 1..Len(docs)}
    IN  /\ caller = NoUser => docs = <<>>
        /\ Len(docs) <= 10
        /\ \A k \in 1..Len(docs) :
              /\ docs[k].id \in 1..Len(table)
              /\ docs[k].doc = table[docs[k].id]
              /\ docs[k].doc.userId = Present(caller)
        /\ \A k \in 1..(Len(docs) - 1) : docs[k].id > docs[k + 1].id
        /\ \A i \in 1..Len(table) :
              (table[i].userId = Present(caller) /\ i \notin ids)
                  => /\ Len(docs) = 10
                     /\ \A j \in ids : j > i

\* C10: every getUserAnalyses query returns at most 10 records, all of the
\* caller, newest first, and none of the caller's records that it omits is
\* newer than one it returns; an unauthenticated caller gets the empty list.
C10_UserHistory ==
    [][ \A caller \in Users \cup {NoUser} :
            GetUserAnalyses(caller)
                => HistoryCorrect(caller, queryResult'.docs, analyses) ]_vars

\* C10 witness: the caller owns more than 10 records besides those of
\* another owner, and the query returned 10 of them, the newest first.
C10_Witness ==
    /\ queryResult.asked
    /\ queryResult.caller = "u1"
    /\ Len(queryResult.docs) = 10
    /\ Cardinality(ByUser(analyses, "u1")) > 10
    /\ Len(analyses) > Cardinality(ByUser(analyses, "u1"))
    /\ queryResult.docs[1].id = Len(analyses)

(***************************************************************************)
(* Properties of the client.                                               *)
(***************************************************************************)
\* C11: an upload of a file whose type does not start with "image/" ends in
\* ERROR with "Please select a valid image file"; no FileReader, 2 s timer
\* or analyzeImage call is started for it, no 15 s timer is pending, and
\* selectedImage and analysisResult keep their values.
C11_InvalidTypeRejected ==
    [][\A file \in Files : \A threw \in BOOLEAN :
          (handleImageUpload(file, threw)
             /\ (Len(file.type) < 6 \/ SubSeq(file.type, 1, 6) # <<"i","m","a","g","e","/">>))
          => /\ appStatus' = "ERROR"
             /\ clientError' = Present("Please select a valid image file")
             /\ uploads' = uploads
             /\ timeout' = Absent
             /\ selectedImage' = selectedImage
             /\ clientResult' = clientResult]_vars

\* An invalid type was rejected while an earlier upload's image and result
\* could have been on display.
C11_Witness ==
    /\ appStatus = "ERROR"
    /\ clientError = Present("Please select a valid image file")
    /\ Len(uploads) >= 1

\* C12: an upload of an image-typed file ends in ERROR with "Image size
\* must be less than 10MB" and starts nothing when its size exceeds
\* 10485760 bytes; at 10485760 bytes or fewer it is accepted: status
\* becomes ANALYZING and its FileReader is started (unless starting the
\* read itself throws).
C12_SizeLimit ==
    [][\A file \in Files : \A threw \in BOOLEAN :
          (handleImageUpload(file, threw)
             /\ Len(file.type) >= 6 /\ SubSeq(file.type, 1, 6) = <<"i","m","a","g","e","/">>)
          => /\ file.size > 10 * 1024 * 1024
                 => /\ appStatus' = "ERROR"
                    /\ clientError' = Present("Image size must be less than 10MB")
                    /\ uploads' = uploads
             /\ (file.size <= 10 * 1024 * 1024 /\ ~threw)
                 => /\ appStatus' = "ANALYZING"
                    /\ clientError' = Absent
                    /\ Len(uploads') = Len(uploads) + 1
                    /\ uploads'[Len(uploads')].file = file
                    /\ uploads'[Len(uploads')].call = "none"]_vars

\* A file of exactly the limit was accepted and one above it was rejected
\* afterwards.
C12_Witness ==
    /\ appStatus = "ERROR"
    /\ clientError = Present("Image size must be less than 10MB")
    /\ \E k \in ClientUploads : uploads[k].file.size = 10 * 1024 * 1024

AppStatuses == {"IDLE", "ANALYZING", "SEARCHING", "COMPLETED", "ERROR"}

\* The changes of status the specification lists.
ListedChanges ==
    {<<"IDLE", "ANALYZING">>, <<"ANALYZING", "SEARCHING">>,
     <<"SEARCHING", "COMPLETED">>, <<"ERROR", "IDLE">>, <<"COMPLETED", "IDLE">>}
    \cup {<<s, "ERROR">> : s \in AppStatuses}

\* C13: every change of the client's status is one of IDLE to ANALYZING,
\* ANALYZING to SEARCHING, SEARCHING to COMPLETED, any state to ERROR, and
\* ERROR or COMPLETED to IDLE.
C13_StatusChanges ==
    [][appStatus' # appStatus => <<appStatus, appStatus'>> \in ListedChanges]_vars

\* C14: once the analysis of the upload in progress has ended "failed" and
\* no timer is pending, the client is in ERROR with "Analysis failed.
\* Please try again.".
C14_FailedAnalysisShowsError ==
    \A k \in ClientUploads :
        (/\ k = current
         /\ uploads[k].call = "rejected"
         /\ uploads[k].doc = "failed"
         /\ uploads[k].timer # "pending"
         /\ timeout = Absent)
        => /\ appStatus = "ERROR"
           /\ clientError = Present("Analysis failed. Please try again.")

PendingCalls == {k \in ClientUploads : uploads[k].call = "pending"}

\* C15: at most one analyzeImage call is in flight, and none while the
\* status is IDLE.
C15_SingleCallInFlight ==
    /\ Cardinality(PendingCalls) <= 1
    /\ appStatus = "IDLE" => PendingCalls = {}

(***************************************************************************)
(* Properties of the catalog's frame.                                      *)
(***************************************************************************)
\* C16: the diseases table changes only in a seedDiseases step taken on an
\* empty table, a step that touches no analysis and no run; once seeded,
\* the catalog stays as it is.
C16_CatalogFrame ==
    [][diseases' # diseases
          => /\ diseases = <<>>
             /\ Len(seedReturns') = Len(seedReturns) + 1
             /\ seedReturns'[Len(seedReturns')] = "Diseases seeded successfully"
             /\ analyses' = analyses
             /\ pc' = pc]_vars

\* A run read the seeded catalog, took its advice call and returned, and a
\* second seeding found the catalog unchanged.
C16_Witness ==
    /\ diseases = SeedData
    /\ Len(seedReturns) = 2
    /\ \E r \in Runs :
          /\ pc[r] = "returned"
          /\ catalogRead[r] = Present(SeedData)
          /\ "advice" \in Range(trace[r])

(***************************************************************************)
(* Properties of late callbacks.                                           *)
(***************************************************************************)
\* C17: when analyzeImage returns while the status is COMPLETED, the
\* result on display is kept; otherwise the empty placeholder with the
\* returned id is installed.
C17_LateReturnKeepsResult ==
    [][\A k \in ClientUploads :
          AnalyzeImageReturns(k)
          => /\ appStatus = "COMPLETED" => clientResult' = clientResult
             /\ appStatus # "COMPLETED"
                 => clientResult' = Present(EmptyPlaceholder(RealId(k)))]_vars

\* C18: in COMPLETED there is a result and its own status is "completed".
C18_CompletedShowsCompletedResult ==
    appStatus = "COMPLETED"
    => /\ clientResult # Absent
       /\ clientResult[1].status = "completed"

\* C19: the 2 s timer of an upload applies its result only while that
\* upload is the one in progress and the status is SEARCHING; in every
\* other state it changes neither the status nor the result.
C19_MockTimerOnlyWhileSearching ==
    [][\A k \in ClientUploads :
          (MockTimerFires(k) /\ ~(appStatus = "SEARCHING" /\ current = k))
          => /\ appStatus' = appStatus
             /\ clientResult' = clientResult]_vars

\* C20: a 2 s timer or an analyzeImage response of an upload that is no
\* longer the current one (the user has reset or started a newer upload)
\* changes neither the result nor the status.
C20_StaleCallbacksIgnored ==
    [][\A k \in ClientUploads :
          ((MockTimerFires(k) \/ AnalyzeImageReturns(k)) /\ k # current)
          => /\ appStatus' = appStatus
             /\ clientResult' = clientResult]_vars

(***************************************************************************)
(* Properties of the client's progress.                                    *)
(***************************************************************************)
\* Something of some upload is still to come: a FileReader callback, a 2 s
\* timer, an analyzeImage response, the 15 s timer or a getAnalysis record.
CallbackPending ==
    \/ \E k \in ClientUploads :
          \/ uploads[k].reader = "reading"
          \/ uploads[k].timer = "pending"
          \/ uploads[k].call = "pending"
    \/ timeout # Absent
    \/ ENABLED GetAnalysisDelivers

\* C21: in COMPLETED both the image and the result are present, and in
\* every state the user can upload or reset, or a timer or callback is
\* still pending.
C21_NoDeadEnd ==
    /\ appStatus = "COMPLETED" => (selectedImage # Absent /\ clientResult # Absent)
    /\ PickerEnabled \/ ResetOffered \/ CallbackPending

\* C22: with FileReader callbacks and timers that eventually fire, a client
\* in ANALYZING or SEARCHING eventually is in COMPLETED or ERROR, whatever
\* the analyzeImage call does.
C22_UploadSettles ==
    (appStatus \in {"ANALYZING", "SEARCHING"}) ~> (appStatus \in {"COMPLETED", "ERROR"})

\* The upload on display completed while its analyzeImage call had not
\* returned.
C22_Witness ==
    /\ appStatus = "COMPLETED"
    /\ current # 0
    /\ uploads[current].call = "pending"
    /\ uploads[current].timer = "fired"

(***************************************************************************)
(* Properties of analyzeImage's outcome.                                   *)
(***************************************************************************)
\* C23: a run that returned its analysis id has left the record with that
\* id "completed".
C23_ReturnedIdIsCompleted ==
    \A r \in Runs : pc[r] = "returned" => analyses[r].status = "completed"

C23_Witness ==
    \E r \in Runs :
        /\ pc[r] = "returned"
        /\ thrown[r] = ""
        /\ writes[r] = <<"completed">>

\* The errors of a run that do not come from getTreatmentInfo's handler.
OtherErrors ==
    {"APIError: classification", "Error: No analysis received from AI",
     "ArgumentValidationError: getTreatmentInfo",
     "ArgumentValidationError: updateAnalysis", "Error: updateAnalysis failed"}

UnableTreatment ==
    [treatment |->
        "Unable to fetch treatment information. Please consult with a local agricultural expert or extension office for proper diagnosis and treatment recommendations.",
     sources |-> <<>>]

\* C24: a throwing catalog query or advice call does not fail the run:
\* getTreatmentInfo returns the "Unable to fetch..." text with empty sources
\* and the run goes on to its "completed" update; a run that returns holds
\* that text in a "completed" record, and a run is in its catch block only
\* with an error of another call.
C24_TreatmentFailureTolerated ==
    \A r \in Runs :
        /\ pc[r] \in {"catch", "thrown"} => error[r] \in OtherErrors
        /\ (pc[r] \in {"update", "returned"} /\ catalogRead[r] = Absent)
             => treatment[r] = Present(UnableTreatment)
        /\ (pc[r] = "returned" /\ treatment[r] = Present(UnableTreatment))
             => /\ analyses[r].status = "completed"
                /\ analyses[r].treatment = UnableTreatment.treatment
                /\ analyses[r].sources = Present(<<>>)

\* The advice call threw after the catalog had no match, and the run
\* returned.
C24_Witness ==
    \E r \in Runs :
        /\ pc[r] = "returned"
        /\ "advice" \in Range(trace[r])
        /\ analyses[r].status = "completed"
        /\ analyses[r].treatment = UnableTreatment.treatment

\* The parsed fields an argument validator rejects.
IllTyped(res) ==
    \/ res.detectedDisease = Absent
    \/ res.symptoms = Absent
    \/ ~res.confidence.isNumber
    \/ res.severity \notin {"low", "moderate", "high"}

\* C25: a run whose response parsed to an object with ill-typed fields keeps
\* that object (no placeholder) and ends with its record "failed" and the
\* error rethrown.
C25_IllTypedFieldsFail ==
    \A r \in Runs :
        (analysisResult[r] # Absent /\ IllTyped(analysisResult[r][1]))
        => /\ pc[r] # "returned"
           /\ pc[r] = "thrown"
               => /\ analyses[r].status = "failed"
                  /\ thrown[r] = error[r]

\* C26: the record of a run that has ended refers to the uploaded image.
C26_ImageStored ==
    \A r \in Runs :
        Ended(r) => (analyses[r].imageUrl # Absent \/ analyses[r].imageStorageId # Absent)

(***************************************************************************)
(* Properties of the 15 s timer and of the error message.                  *)
(***************************************************************************)
\* C27: the 15 s timer is pending only in ANALYZING or SEARCHING, a change
\* of status clears it (starting a fresh one for the new status when that
\* is ANALYZING or SEARCHING), and its callback runs only in ANALYZING or
\* SEARCHING, where it installs its result and sets COMPLETED.
C27_TimeoutOnlyWhileInProgress ==
    [][/\ timeout' # Absent
           => /\ appStatus' \in {"ANALYZING", "SEARCHING"}
              /\ timeout' = Present(appStatus')
       /\ TimeoutFires
           => /\ appStatus \in {"ANALYZING", "SEARCHING"}
              /\ appStatus' = "COMPLETED"
              /\ clientResult' # Absent
              /\ clientResult'[1].detectedDisease = "Leaf Analysis Complete"
              /\ timeout' = Absent]_vars

\* The 15 s timer completed an upload whose file was still being read.
C27_Witness ==
    /\ appStatus = "COMPLETED"
    /\ clientResult # Absent
    /\ clientResult[1].detectedDisease = "Leaf Analysis Complete"
    /\ timeout = Absent

\* C28: the error message is set exactly when the status is ERROR.
C28_ErrorIffErrorStatus ==
    (clientError # Absent) <=> (appStatus = "ERROR")

====
